---- MODULE Spec2Model ----
(***************************************************************************)
(* Model of the food-order bot: the persistence layer of redis_client.py   *)
(* (day-keyed order hashes, per-user message sorted sets), the command and *)
(* message handlers of main.py that call it, and the start-up sequence.    *)
(*                                                                         *)
(* Strings are TLA+ strings; a JSON text is a sequence of tokens; a naive  *)
(* datetime is a number of clock ticks since the epoch of the model.       *)
(***************************************************************************)
EXTENDS Integers, Sequences, FiniteSets, TLC

VARIABLES
    clock,       \* the local wall clock, in ticks (datetime.now / datetime.today)
    tokenSet,    \* whether TELEGRAM_BOT_TOKEN is set in the environment
    ping,        \* outcome of redis_conn.ping() at import: "none" before it ran
    redis_conn,  \* the module global: "unset", "conn" or "None"
    mainPc,      \* position of the process: import, main, polling, exited, crashed
    registered,  \* whether main() has registered the handlers
    storeUp,     \* the store: "up", or "stalled" (accepts requests, never answers)
    hashes,      \* the store's hashes: key -> sequence of <<field, value>>
    zsets,       \* the store's sorted sets: key -> sequence of <<member, score>>
    h,           \* the handler being run: its position and the call in flight
    last,        \* the service call that returned in the latest step, with its result
    live,        \* history: <<key, user id, payload, food, order_time>> of each
                 \* user's standing order
    nCalls       \* history: number of handler invocations that reached the service

vars == <<clock, tokenSet, ping, redis_conn, mainPc, registered, storeUp,
          hashes, zsets, h, last, live, nCalls>>

---------------------------------------------------------------------------
(* Bounds of the model *)

MaxClock == 3
TicksPerDay == 3
MaxCalls == 2
UtcOffset == 1

NoUser == [id |-> 0, username |-> "", first_name |-> ""]

Users ==
    { [id |-> 1, username |-> "anna", first_name |-> "Anna"],
      [id |-> 2, username |-> "",     first_name |-> "Marco"],
      [id |-> 3, username |-> "",     first_name |-> "Marco"] }

ArgLists == { <<>>, <<"pizza">>, <<"pasta", "bianca">> }

\* message texts as sequences of characters
Texts == { <<>>, <<"h", "i">>, <<"y", "o">>, <<"/", "h", "i">> }

ChatTypes == {"private", "group", "supergroup"}

Posters == { u \in Users : u.id \in {1, 2} } \cup {NoUser}

\* message.date values, in seconds since the epoch
MsgDates == {1, 3}

\* values of get_user_messages_desc's count
Counts == {0, 1, 2}

DateTimes == 0..MaxClock

Days == { t \div TicksPerDay : t \in DateTimes }

---------------------------------------------------------------------------
(* Keys *)

ORDER_PREFIX == "food_orders:"

MESSAGES_USER_PREFIX == "messages:user:"

\* datetime.strftime('%Y-%m-%d') of the day number d
strftime_Ymd(d) == "2025-01-0" \o ToString(d + 1)

get_current_date_str(now) == strftime_Ymd(now \div TicksPerDay)

get_order_key_for_date(date_str) == ORDER_PREFIX \o date_str

get_messages_key_for_user(user_id) == MESSAGES_USER_PREFIX \o ToString(user_id)

HashKeys == { get_order_key_for_date(strftime_Ymd(d)) : d \in Days }

ZKeys == { get_messages_key_for_user(u.id) : u \in Users }

get_display_name(user) ==
    IF user.username # "" THEN "@" \o user.username
    ELSE IF user.first_name # "" THEN user.first_name
    ELSE "User ID " \o ToString(user.id)

\* " ".join(context.args).strip(): the arguments are whitespace-free words,
\* so the joined text has nothing to strip at either end
RECURSIVE JoinArgs(_)
JoinArgs(args) ==
    IF args = <<>> THEN ""
    ELSE IF Len(args) = 1 THEN args[1]
    ELSE args[1] \o " " \o JoinArgs(Tail(args))

---------------------------------------------------------------------------
(* Datetimes and their text forms *)

\* datetime.min, the sort key of a record without a timestamp
datetime_min == -1

\* datetime.isoformat() of the naive datetime t: date, "T", time of day
isoformat(t) == strftime_Ymd(t \div TicksPerDay) \o "T" \o ToString(t % TicksPerDay)

\* datetime.fromisoformat(s): the datetime whose ISO text is s, or ValueError
fromisoformat(s) ==
    IF \E t \in DateTimes : isoformat(t) = s
    THEN [ok |-> TRUE, v |-> CHOOSE t \in DateTimes : isoformat(t) = s]
    ELSE [ok |-> FALSE, v |-> datetime_min]

\* message.date is a timezone-aware UTC datetime; timestamp() is its number
\* of seconds since the epoch
timestamp(date) == date.epoch

\* datetime.fromtimestamp(score): the naive local datetime of that instant
fromtimestamp(score) == [naive |-> score + UtcOffset]

MessageDate(n) == [epoch |-> n, tz |-> "UTC"]

---------------------------------------------------------------------------
(* JSON: a text is a sequence of tokens [t, v]; a Python value is a token   *)
(* of type "str", "num" or "null"                                          *)

Tok(t, v) == [t |-> t, v |-> v]

Str(s) == Tok("str", s)

PyNone == Tok("null", "")

Scalars == {"str", "num", "null"}

\* json.dumps of a dict given as its (key, value) items in insertion order
RECURSIVE DumpItems(_)
DumpItems(items) ==
    IF items = <<>> THEN <<>>
    ELSE << Str(items[1][1]), Tok(":", ""), items[1][2] >>
         \o (IF Len(items) = 1 THEN <<>> ELSE << Tok(",", "") >>)
         \o DumpItems(Tail(items))

json_dumps(items) == << Tok("{", "") >> \o DumpItems(items) \o << Tok("}", "") >>

\* whether the tokens between the braces are  key : value (, key : value)*
RECURSIVE WellFormedMembers(_)
WellFormedMembers(inner) ==
    IF Len(inner) < 3 THEN FALSE
    ELSE /\ inner[1].t = "str"
         /\ inner[2].t = ":"
         /\ inner[3].t \in Scalars
         /\ \/ Len(inner) = 3
            \/ /\ Len(inner) > 4
               /\ inner[4].t = ","
               /\ WellFormedMembers(SubSeq(inner, 5, Len(inner)))

\* the dict of well-formed members: a later duplicate key wins
RECURSIVE MembersDict(_)
MembersDict(inner) ==
    IF Len(inner) < 3 THEN << >>
    ELSE LET rest == MembersDict(SubSeq(inner, 5, Len(inner)))
         IN  [k \in {inner[1].v} \cup DOMAIN rest |->
                 IF k \in DOMAIN rest THEN rest[k] ELSE inner[3]]

\* json.loads(text): [ok, kind, v]; ok = FALSE stands for JSONDecodeError
json_loads(text) ==
    IF Len(text) = 1 /\ text[1].t \in Scalars
    THEN [ok |-> TRUE, kind |-> "scalar", v |-> text[1]]
    ELSE IF /\ Len(text) >= 2
            /\ text[1].t = "{"
            /\ text[Len(text)].t = "}"
            /\ \/ Len(text) = 2
               \/ WellFormedMembers(SubSeq(text, 2, Len(text) - 1))
    THEN [ok |-> TRUE, kind |-> "dict",
          v |-> MembersDict(SubSeq(text, 2, Len(text) - 1))]
    ELSE [ok |-> FALSE, kind |-> "error", v |-> PyNone]

\* dict.get(key, default)
DictGet(d, key, default) == IF key \in DOMAIN d THEN d[key] ELSE default

\* truthiness of a Python value
Truthy(val) ==
    CASE val.t = "null" -> FALSE
      [] val.t = "str"  -> val.v # ""
      [] val.t = "num"  -> val.v # "0"
      [] OTHER          -> TRUE

OrderPayload(food, order_time) ==
    json_dumps(<< <<"food", Str(food)>>,
                  <<"timestamp_iso", Str(isoformat(order_time))>> >>)

---------------------------------------------------------------------------
(* The store's commands *)

HasField(hash, field) == \E i \in 1..Len(hash) : hash[i][1] = field

\* a buggy HSET that appends without looking for the field
HSetAppend(hash, field, value) == Append(hash, <<field, value>>)

\* HSET key field value: overwrite the field's value, or add the field
HSet(hash, field, value) ==
    IF HasField(hash, field)
    THEN [i \in 1..Len(hash) |->
             IF hash[i][1] = field THEN <<field, value>> ELSE hash[i]]
    ELSE Append(hash, <<field, value>>)

\* a buggy HDEL that removes the other fields
HDelOthers(hash, field) == SelectSeq(hash, LAMBDA e : e[1] = field)

\* HDEL key field: the hash without the field
HDel(hash, field) == SelectSeq(hash, LAMBDA e : e[1] # field)

\* HDEL's reply: the number of fields removed
HDelCount(hash, field) == Len(hash) - Len(HDel(hash, field))

\* order of the characters of message texts
Alphabet == << "/", "h", "i", "o", "y" >>

CharRank(c) == CHOOSE i \in 1..Len(Alphabet) : Alphabet[i] = c

\* lexicographic order of two members
RECURSIVE LexLess(_, _)
LexLess(a, b) ==
    IF b = <<>> THEN FALSE
    ELSE IF a = <<>> THEN TRUE
    ELSE IF a[1] # b[1] THEN CharRank(a[1]) < CharRank(b[1])
    ELSE LexLess(Tail(a), Tail(b))

\* the order of a sorted set: by score, then by member
ZLess(e, f) == e[2] < f[2] \/ (e[2] = f[2] /\ LexLess(e[1], f[1]))

\* a buggy ZADD that keeps the member's old entry
ZAddKeep(zset, member, score) ==
    LET new == <<member, score>>
    IN  SelectSeq(zset, LAMBDA e : ZLess(e, new)) \o << new >>
        \o SelectSeq(zset, LAMBDA e : ~ZLess(e, new))

\* a buggy ZADD that starts the set afresh
ZAddAlone(zset, member, score) == << <<member, score>> >>

\* ZADD key score member: set the member's score, keeping the set ordered
ZAdd(zset, member, score) ==
    LET new  == <<member, score>>
        rest == SelectSeq(zset, LAMBDA e : e[1] # member)
    IN  SelectSeq(rest, LAMBDA e : ZLess(e, new)) \o << new >>
        \o SelectSeq(rest, LAMBDA e : ~ZLess(e, new))

Reverse(s) == [i \in 1..Len(s) |-> s[Len(s) + 1 - i]]

\* a buggy read with ZRANGE: ranks count from the lowest score
ZRange(zset, start, stop) ==
    LET n  == Len(zset)
        e0 == IF stop < 0 THEN n + stop ELSE (IF stop >= n THEN n - 1 ELSE stop)
    IN  IF start > e0 \/ start >= n THEN <<>>
        ELSE SubSeq(zset, start + 1, e0 + 1)

\* ZREVRANGE key start stop WITHSCORES: ranks count from the highest score;
\* a negative index counts from the end
ZRevRange(zset, start, stop) ==
    LET n  == Len(zset)
        s0 == IF start < 0 THEN (IF n + start < 0 THEN 0 ELSE n + start) ELSE start
        e0 == IF stop < 0 THEN n + stop ELSE (IF stop >= n THEN n - 1 ELSE stop)
    IN  IF s0 > e0 \/ s0 >= n THEN <<>>
        ELSE SubSeq(Reverse(zset), s0 + 1, e0 + 1)

---------------------------------------------------------------------------
(* get_orders_for_day, after HGETALL has answered *)

\* the loop of lines 66-76: one entry per field whose value parses to a dict
RECURSIVE ParseOrders(_)
ParseOrders(raw) ==
    IF raw = <<>> THEN <<>>
    ELSE LET parsed == json_loads(raw[1][2])
             rest   == ParseOrders(Tail(raw))
         IN  IF parsed.ok /\ parsed.kind = "dict"
             THEN << [username      |-> raw[1][1],
                      food          |-> DictGet(parsed.v, "food", Str("N/A")),
                      timestamp_iso |-> DictGet(parsed.v, "timestamp_iso", PyNone)] >>
                  \o rest
             ELSE rest

\* the sort key of line 77; ok = FALSE when fromisoformat raises
SortKey(entry) ==
    IF Truthy(entry.timestamp_iso)
    THEN IF entry.timestamp_iso.t = "str"
         THEN fromisoformat(entry.timestamp_iso.v)
         ELSE [ok |-> FALSE, v |-> datetime_min]
    ELSE [ok |-> TRUE, v |-> datetime_min]

\* a buggy sort that leaves the list in the hash's order
UnsortedByKey(list) == list

\* list.sort(key=...): stable, ascending
RECURSIVE SortByKey(_)
SortByKey(list) ==
    IF list = <<>> THEN <<>>
    ELSE LET sorted == SortByKey(SubSeq(list, 1, Len(list) - 1))
             x      == list[Len(list)]
             k      == SortKey(x).v
         IN  SelectSeq(sorted, LAMBDA e : SortKey(e).v <= k) \o << x >>
             \o SelectSeq(sorted, LAMBDA e : SortKey(e).v > k)

\* lines 64-81: the list returned for the raw hash
OrdersFromHash(raw) ==
    IF raw = <<>> THEN <<>>
    ELSE LET orders_list == ParseOrders(raw)
         IN  IF \E i \in 1..Len(orders_list) : ~SortKey(orders_list[i]).ok
             THEN <<>>
             ELSE SortByKey(orders_list)

\* lines 132-147: the list returned for ZREVRANGE's results
MessagesFromResults(results) ==
    [i \in 1..Len(results) |-> << results[i][1], fromtimestamp(results[i][2]) >>]

---------------------------------------------------------------------------
(* State *)

\* Updates are handled one at a time (main.py:174-175 builds the application
\* without concurrent updates, and the store client is synchronous), so one
\* handler record is the whole of the handlers' state.
Idle == [pc |-> "idle"]

\* a store command in flight, sent by a service function
Call(op, key, field, value, uid, food, order_time) ==
    [pc |-> "wait", op |-> op, key |-> key, field |-> field, value |-> value,
     uid |-> uid, food |-> food, order_time |-> order_time]

\* whether the field or member a command names is in the store
Present(call) ==
    CASE call.op \in {"hset", "hdel"} /\ call.key \in HashKeys ->
             \E i \in 1..Len(hashes[call.key]) : hashes[call.key][i][1] = call.field
      [] call.op = "zadd" ->
             \E i \in 1..Len(zsets[call.key]) : zsets[call.key][i][1] = call.field
      [] OTHER -> FALSE

\* what a service function gave back to its caller; `present` tells whether
\* the field or member was in the store when the function returned or,
\* for a command the store ran, just before it ran
Returned(call, failed, result) ==
    [op |-> call.op, present |-> Present(call), failed |-> failed,
     outcome |-> result.outcome, ret |-> result.ret]

NoCall == Call("none", "", "", <<>>, 0, "", 0)

WriteOps == {"hset", "hdel", "zadd"}

\* the value of `last` after a step in which no service call returned
NoReturn == Returned(NoCall, FALSE, [outcome |-> "return", ret |-> FALSE])

\* the keyword arguments of redis.Redis(...): no socket_timeout is given,
\* so the client waits for an answer without limit
socket_timeout == "None"

\* values of a field that this program did not write: a text cut short, a
\* dict without timestamp_iso, a dict whose timestamp_iso is no ISO text
TruncatedPayload == << Tok("{", ""), Str("food"), Tok(":", ""), Str("sushi") >>

NoTimestampPayload == json_dumps(<< <<"food", Str("sushi")>> >>)

BadTimestampPayload ==
    json_dumps(<< <<"food", Str("sushi")>>, <<"timestamp_iso", Str("yesterday")>> >>)

ForeignField == "@anna"

Day0Key == get_order_key_for_date(strftime_Ymd(0))

\* what the store, which outlives the process, may hold for the first day
\* when the process starts
InitialDay0Hashes ==
    { <<>>,
      << <<ForeignField, TruncatedPayload>> >>,
      << <<ForeignField, BadTimestampPayload>> >>,
      << <<"Marco", OrderPayload("pizza", 0)>>, <<ForeignField, NoTimestampPayload>> >> }

\* an archive left by an earlier run of the bot
EarlierArchive == ZAdd(ZAdd(<<>>, <<"y", "o">>, 1), <<"h", "i">>, 2)

User1Key == get_messages_key_for_user(1)

InitialStores ==
    { [day0 |-> d, user1 |-> <<>>] : d \in InitialDay0Hashes }
    \cup { [day0 |-> <<>>, user1 |-> EarlierArchive] }

Init ==
    /\ clock = 0
    /\ tokenSet \in BOOLEAN
    /\ ping = "none"
    /\ redis_conn = "unset"
    /\ mainPc = "import"
    /\ registered = FALSE
    /\ storeUp = "up"
    /\ \E old \in InitialStores :
          /\ hashes = [k \in HashKeys |-> IF k = Day0Key THEN old.day0 ELSE <<>>]
          /\ zsets = [k \in ZKeys |-> IF k = User1Key THEN old.user1 ELSE <<>>]
    /\ h = Idle
    /\ last = NoReturn
    /\ live = {}
    /\ nCalls = 0

---------------------------------------------------------------------------
(* Environment *)

Tick ==
    /\ clock < MaxClock
    /\ clock' = clock + 1
    /\ last' = NoReturn
    /\ UNCHANGED <<tokenSet, ping, redis_conn, mainPc, registered, storeUp,
                   hashes, zsets, h, live, nCalls>>

\* the store stops answering
Stall ==
    /\ storeUp = "up"
    /\ storeUp' = "stalled"
    /\ last' = NoReturn
    /\ UNCHANGED <<clock, tokenSet, ping, redis_conn, mainPc, registered,
                   hashes, zsets, h, live, nCalls>>

---------------------------------------------------------------------------
(* Start-up *)

\* import redis_client: connect and ping. A ConnectionError is caught and
\* leaves redis_conn = None; any other exception ends the process.
ImportRedisClient ==
    /\ mainPc = "import"
    /\ storeUp = "up"
    /\ \E outcome \in {"pong", "ConnectionError", "OtherError"} :
          /\ ping' = outcome
          /\ redis_conn' = CASE outcome = "pong"            -> "conn"
                             [] outcome = "ConnectionError" -> "None"
                             [] OTHER                       -> "unset"
          /\ mainPc' = IF outcome = "OtherError" THEN "crashed" ELSE "main"
    /\ last' = NoReturn
    /\ UNCHANGED <<clock, tokenSet, registered, storeUp, hashes, zsets, h,
                   live, nCalls>>

\* a main() that forgets to look at redis_conn
MainStartsNoRedisCheck(token, conn) == token

\* whether main() gets past its two early returns
MainStarts(token, conn) == token /\ conn # "None"

Main ==
    /\ mainPc = "main"
    /\ IF MainStarts(tokenSet, redis_conn)
       THEN registered' = TRUE /\ mainPc' = "polling"
       ELSE registered' = FALSE /\ mainPc' = "exited"
    /\ last' = NoReturn
    /\ UNCHANGED <<clock, tokenSet, ping, redis_conn, storeUp, hashes, zsets,
                   h, live, nCalls>>

\* run_polling dispatches an update to a registered handler when none runs
CanHandle == mainPc = "polling" /\ registered /\ h = Idle /\ nCalls < MaxCalls

---------------------------------------------------------------------------
(* Handlers of main.py, up to the store command they send *)

\* `if not redis_conn: return False / []`, before any store command
ReturnNoConn(call) ==
    Returned(call, FALSE,
             [outcome |-> "return",
              ret |-> IF call.op \in WriteOps THEN FALSE ELSE <<>>])

\* food_command, lines 64-77: the early returns, then the display name and
\* order_time = datetime.now()
food_command(user, args) ==
    /\ CanHandle
    /\ IF user = NoUser \/ args = <<>> \/ JoinArgs(args) = ""
       THEN UNCHANGED <<h, nCalls>>
       ELSE /\ h' = [pc |-> "add_or_update_order", uid |-> user.id,
                     display_name |-> get_display_name(user),
                     food |-> JoinArgs(args), order_time |-> clock]
            /\ nCalls' = nCalls + 1
    /\ last' = NoReturn
    /\ UNCHANGED <<clock, tokenSet, ping, redis_conn, mainPc, registered,
                   storeUp, hashes, zsets, live>>

\* add_or_update_order, lines 46-52: today's key, the payload, HSET
add_or_update_order ==
    /\ h.pc = "add_or_update_order"
    /\ LET order_key == get_order_key_for_date(get_current_date_str(clock))
       IN  IF redis_conn # "conn"
           THEN /\ h' = Idle
                /\ last' = ReturnNoConn(Call("hset", order_key, h.display_name, <<>>,
                                             h.uid, h.food, h.order_time))
           ELSE /\ h' = Call("hset", order_key, h.display_name,
                             OrderPayload(h.food, h.order_time),
                             h.uid, h.food, h.order_time)
                /\ last' = NoReturn
    /\ UNCHANGED <<clock, tokenSet, ping, redis_conn, mainPc, registered,
                   storeUp, hashes, zsets, live, nCalls>>

\* a handler that calls one service function right away: the function
\* returns at once without a connection, and sends its command otherwise
Send(call) ==
    /\ nCalls' = nCalls + 1
    /\ IF redis_conn # "conn"
       THEN h' = h /\ last' = ReturnNoConn(call)
       ELSE h' = call /\ last' = NoReturn

\* summary_command, lines 84-90, into get_orders_for_day, lines 60-63
summary_command(user) ==
    /\ CanHandle
    /\ IF user = NoUser
       THEN UNCHANGED <<h, nCalls>> /\ last' = NoReturn
       ELSE Send(Call("hgetall",
                      get_order_key_for_date(get_current_date_str(clock)),
                      "", <<>>, 0, "", 0))
    /\ UNCHANGED <<clock, tokenSet, ping, redis_conn, mainPc, registered,
                   storeUp, hashes, zsets, live>>

\* reset_command, lines 113-120, into delete_order_for_user, lines 84-87
reset_command(user) ==
    /\ CanHandle
    /\ IF user = NoUser
       THEN UNCHANGED <<h, nCalls>> /\ last' = NoReturn
       ELSE Send(Call("hdel",
                      get_order_key_for_date(get_current_date_str(clock)),
                      get_display_name(user), <<>>, user.id, "", 0))
    /\ UNCHANGED <<clock, tokenSet, ping, redis_conn, mainPc, registered,
                   storeUp, hashes, zsets, live>>

\* a handler that archives the messages of private chats too
ArchivableAnyChat(user, text, chat_type) ==
    /\ user # NoUser
    /\ text # <<>>
    /\ text[1] # "/"

\* the two early returns of message_store_handler, lines 132-137
Archivable(user, text, chat_type) ==
    /\ user # NoUser
    /\ text # <<>>
    /\ text[1] # "/"
    /\ chat_type \in {"group", "supergroup"}

\* message_store_handler, lines 127-151, into store_user_message, lines 95-106
message_store_handler(user, text, chat_type, date) ==
    /\ CanHandle
    /\ IF ~Archivable(user, text, chat_type)
       THEN UNCHANGED <<h, nCalls>> /\ last' = NoReturn
       ELSE Send(Call("zadd", get_messages_key_for_user(user.id), text,
                      timestamp(date), user.id, "", 0))
    /\ UNCHANGED <<clock, tokenSet, ping, redis_conn, mainPc, registered,
                   storeUp, hashes, zsets, live>>

\* get_user_messages_desc, lines 121-129: ZREVRANGE key 0 count-1
get_user_messages_desc(user_id, count) ==
    /\ CanHandle
    /\ Send(Call("zrevrange", get_messages_key_for_user(user_id), <<>>,
                 count, 0, "", 0))
    /\ UNCHANGED <<clock, tokenSet, ping, redis_conn, mainPc, registered,
                   storeUp, hashes, zsets, live>>

---------------------------------------------------------------------------
(* The store answers, and the service function returns *)

HashesAfter(c) ==
    CASE c.op = "hset" -> [hashes EXCEPT ![c.key] = HSet(@, c.field, c.value)]
      [] c.op = "hdel" -> [hashes EXCEPT ![c.key] = HDel(@, c.field)]
      [] OTHER         -> hashes

\* a buggy ZADD that writes the member into every user's archive
ZsetsAfterEveryUser(c) ==
    IF c.op = "zadd"
    THEN [k \in ZKeys |-> ZAdd(zsets[k], c.field, c.value)]
    ELSE zsets

ZsetsAfter(c) ==
    IF c.op = "zadd"
    THEN [zsets EXCEPT ![c.key] = ZAdd(@, c.field, c.value)]
    ELSE zsets

\* history: the order each user has standing, by the commands the store ran
LiveAfter(c) ==
    LET others == { t \in live : ~(t[1] = c.key /\ t[2] = c.uid) }
    IN  CASE c.op = "hset" ->
                 others \cup { <<c.key, c.uid, c.value, c.food, c.order_time>> }
          [] c.op = "hdel" -> others
          [] OTHER         -> live

\* what each function returns once its command has been answered
Result(c) ==
    [outcome |-> "return",
     ret |-> CASE c.op = "hset"    -> TRUE
               [] c.op = "hgetall" -> OrdersFromHash(hashes[c.key])
               [] c.op = "hdel"    -> HDelCount(hashes[c.key], c.field) > 0
               [] c.op = "zadd"    -> TRUE
               [] OTHER            ->
                    MessagesFromResults(ZRevRange(zsets[c.key], 0, c.value - 1))]

\* an except clause that lets the exception out
OnStoreErrorRaise(op) == [outcome |-> "raise", ret |-> FALSE]

\* the `except Exception` clauses: log, return False or []
OnStoreError(op) ==
    [outcome |-> "return", ret |-> IF op \in WriteOps THEN FALSE ELSE <<>>]

StoreReply ==
    /\ h.pc = "wait"
    /\ storeUp = "up"
    /\ hashes' = HashesAfter(h)
    /\ zsets' = ZsetsAfter(h)
    /\ live' = LiveAfter(h)
    /\ last' = Returned(h, FALSE, Result(h))
    /\ h' = Idle
    /\ UNCHANGED <<clock, tokenSet, ping, redis_conn, mainPc, registered,
                   storeUp, nCalls>>

\* the store call raises: the connection broke (before or after the store
\* ran the command), or the socket timeout, if there is one, expired
StoreFail ==
    /\ h.pc = "wait"
    /\ storeUp = "up" \/ socket_timeout # "None"
    /\ \E ran \in (IF storeUp = "up" /\ h.op \in WriteOps
                   THEN BOOLEAN ELSE {FALSE}) :
          /\ hashes' = IF ran THEN HashesAfter(h) ELSE hashes
          /\ zsets' = IF ran THEN ZsetsAfter(h) ELSE zsets
          /\ live' = IF ran THEN LiveAfter(h) ELSE live
    /\ last' = Returned(h, TRUE, OnStoreError(h.op))
    /\ h' = Idle
    /\ UNCHANGED <<clock, tokenSet, ping, redis_conn, mainPc, registered,
                   storeUp, nCalls>>

---------------------------------------------------------------------------

Next ==
    \/ Tick
    \/ ImportRedisClient
    \/ Main
    \/ \E u \in Users \cup {NoUser}, args \in ArgLists : food_command(u, args)
    \/ add_or_update_order
    \/ \E u \in Users \cup {NoUser} : summary_command(u)
    \/ \E u \in Users \cup {NoUser} : reset_command(u)
    \/ \E u \in Posters, text \in Texts, ct \in ChatTypes, n \in MsgDates :
          message_store_handler(u, text, ct, MessageDate(n))
    \/ \E u \in Posters \ {NoUser}, count \in Counts :
          get_user_messages_desc(u.id, count)
    \/ StoreReply
    \/ StoreFail

Spec == Init /\ [][Next]_vars

\* the same program with a store that may stop answering
NextStall == Next \/ Stall

\* fairness of the code's scheduling: a handler that entered
\* add_or_update_order goes on, a store that is up answers, and a stalled
\* call is ended by the client's socket timeout when one is configured
LiveSpec ==
    /\ Init
    /\ [][NextStall]_vars
    /\ WF_vars(add_or_update_order)
    /\ WF_vars(StoreReply)
    /\ WF_vars(StoreFail /\ storeUp = "stalled")

---------------------------------------------------------------------------
(* Properties *)

\* the service function that sent `op` returns in this step
Returns(op) == h.pc = "wait" /\ h.op = op /\ h'.pc = "idle"

OneRecordPerOwner ==
    \A k \in HashKeys : \A i, j \in 1..Len(hashes[k]) :
        hashes[k][i][1] = hashes[k][j][1] => i = j

\* the entries that get_orders_for_day's loop builds for one owner
EntriesOf(hash, owner) ==
    SelectSeq(ParseOrders(hash), LAMBDA e : e.username = owner)

\* C1: every day's collection holds at most one record per owner, and after
\* a place_or_update_order that succeeded the owner's single record carries
\* the food and the time of that write, whatever the owner had before.
C1_LastWriteWins ==
    /\ OneRecordPerOwner
    /\ [][ /\ OneRecordPerOwner'
           /\ (Returns("hset") /\ ~last'.failed) =>
                 LET es == EntriesOf(hashes'[h.key], h.field)
                 IN  /\ Len(es) = 1
                     /\ es[1].food = Str(h.food)
                     /\ es[1].timestamp_iso.t = "str"
                     /\ fromisoformat(es[1].timestamp_iso.v)
                           = [ok |-> TRUE, v |-> h.order_time]
         ]_vars

\* C1 witness: the owner Marco, who had an order, placed a second one, which
\* is now the day's only record
C1_Witness ==
    /\ last.op = "hset"
    /\ last.present
    /\ ~last.failed
    /\ nCalls = 2
    /\ hashes[Day0Key] = << <<"Marco", OrderPayload("pasta bianca", 1)>> >>

UserById(id) == CHOOSE u \in Users : u.id = id

\* the user's standing order t = <<key, user id, payload, food, order_time>>
\* is in the day's collection, under the user's display name
InCollection(t) ==
    \E i \in 1..Len(hashes[t[1]]) :
        hashes[t[1]][i] = << get_display_name(UserById(t[2])), t[3] >>

\* C2: two users with distinct ids who each placed an order on the same day
\* wrote to different hash fields, and the day's collection contains both
\* orders.
C2_DistinctUsersNeverConflict ==
    \A t1, t2 \in live :
        (t1[1] = t2[1] /\ t1[2] # t2[2]) =>
            /\ get_display_name(UserById(t1[2])) # get_display_name(UserById(t2[2]))
            /\ InCollection(t1)
            /\ InCollection(t2)

\* what C3 promises once remove_order has returned true: the owner is in no
\* listing of the day, and a repeated remove_order finds nothing to remove
RemovedFor(hash, owner) ==
    /\ ~HasField(hash, owner)
    /\ \A i \in 1..Len(OrdersFromHash(hash)) : OrdersFromHash(hash)[i].username # owner
    /\ ~(HDelCount(hash, owner) > 0)

\* C3 as stated: remove_order returns true if and only if a record for
\* (owner, day) was present when it ran; after it returned true the owner is
\* no longer listed and an immediately repeated remove_order returns false.
C3_RemoveTrueIffPresent ==
    [][ Returns("hdel") =>
           /\ (last'.ret = TRUE) <=> HasField(hashes[h.key], h.field)
           /\ (last'.ret = TRUE) => RemovedFor(hashes'[h.key], h.field)
      ]_vars

\* C3 amended: remove_order returns true if and only if a record for
\* (owner, day) was present when it ran and the store call succeeded (when
\* the store call fails it returns false, present or not); after it returned
\* true the owner is no longer listed and an immediately repeated
\* remove_order returns false.
C3_RemoveTrueIffPresentAndStoreOk ==
    [][ Returns("hdel") =>
           /\ (last'.ret = TRUE) <=>
                 (HasField(hashes[h.key], h.field) /\ ~last'.failed)
           /\ (last'.ret = TRUE) => RemovedFor(hashes'[h.key], h.field)
      ]_vars

\* C3 witness: a remove_order of a record that was present returned true
C3_Witness == last.op = "hdel" /\ ~last.failed /\ last.ret = TRUE

\* a payload that deserializes to an order: a dict whose timestamp is absent
\* or an ISO text
WellFormedOrder(payload) ==
    LET parsed == json_loads(payload)
    IN  /\ parsed.ok
        /\ parsed.kind = "dict"
        /\ SortKey([timestamp_iso |-> DictGet(parsed.v, "timestamp_iso", PyNone)]).ok

WellFormedFields(hash) ==
    { hash[i][1] : i \in { j \in 1..Len(hash) : WellFormedOrder(hash[j][2]) } }

\* C4: when the store answers, list_orders_for_day returns every record of
\* the day's collection (every field whose payload deserializes to an order)
\* exactly once, sorted ascending by placed_at with the records without a
\* timestamp first; an empty collection yields the empty sequence.
C4_ListsEveryRecordSorted ==
    [][ (Returns("hgetall") /\ ~last'.failed) =>
           LET raw == hashes[h.key]
               ret == last'.ret
           IN  /\ \A f \in WellFormedFields(raw) :
                      Cardinality({ j \in 1..Len(ret) : ret[j].username = f }) = 1
               /\ \A j \in 1..Len(ret) : ret[j].username \in WellFormedFields(raw)
               /\ \A j, k \in 1..Len(ret) :
                      j < k => SortKey(ret[j]).v <= SortKey(ret[k]).v
               /\ raw = <<>> => ret = <<>>
      ]_vars

\* C5: when the day's collection holds a record whose payload cannot be
\* parsed (in its JSON text or in its timestamp) beside well-formed records,
\* list_orders_for_day still returns every well-formed record, with its food.
C5_DropsOnlyTheUnparsableRecord ==
    [][ ( /\ Returns("hgetall")
          /\ ~last'.failed
          /\ \E i \in 1..Len(hashes[h.key]) : ~WellFormedOrder(hashes[h.key][i][2]) ) =>
           LET raw == hashes[h.key]
               ret == last'.ret
           IN  /\ last'.outcome = "return"
               /\ \A i \in 1..Len(raw) :
                      WellFormedOrder(raw[i][2]) =>
                          \E j \in 1..Len(ret) :
                              /\ ret[j].username = raw[i][1]
                              /\ ret[j].food =
                                    DictGet(json_loads(raw[i][2]).v, "food", Str("N/A"))
      ]_vars

OneEntryPerText ==
    \A k \in ZKeys : \A i, j \in 1..Len(zsets[k]) :
        zsets[k][i][1] = zsets[k][j][1] => i = j

\* C6: a user's archive holds one entry per distinct message text, and after
\* a record_message that succeeded the text's single entry has the score of
\* that message, whether or not the text was in the archive before.
C6_OneEntryPerText ==
    /\ OneEntryPerText
    /\ [][ /\ OneEntryPerText'
           /\ (Returns("zadd") /\ ~last'.failed) =>
                 LET es == SelectSeq(zsets'[h.key], LAMBDA e : e[1] = h.field)
                 IN  Len(es) = 1 /\ es[1][2] = h.value
         ]_vars

\* C6 witness: "hi", archived with score 2, was recorded again at 3
C6_Witness ==
    /\ last.op = "zadd"
    /\ last.present
    /\ ~last.failed
    /\ zsets[User1Key] = << << <<"y", "o">>, 1 >>, << <<"h", "i">>, 3 >> >>

MinOf(a, b) == IF a < b THEN a ELSE b

\* ret is the min(limit, n) entries of archive z with the highest scores,
\* newest first
NewestFirst(z, limit, ret) ==
    /\ Len(ret) = MinOf(limit, Len(z))
    /\ \A i \in 1..Len(ret) :
           \E e \in 1..Len(z) : ret[i] = << z[e][1], fromtimestamp(z[e][2]) >>
    /\ \A i, j \in 1..Len(ret) :
           /\ i # j => ret[i][1] # ret[j][1]
           /\ i < j => ret[i][2].naive >= ret[j][2].naive
    /\ \A e \in 1..Len(z) :
           (\A i \in 1..Len(ret) : ret[i][1] # z[e][1]) =>
               \A i \in 1..Len(ret) : fromtimestamp(z[e][2]).naive <= ret[i][2].naive

C8_EveryCallReturns == (h.pc = "wait") ~> (h.pc = "idle")

\* C9: when the store call of a service function fails, the function does
\* not raise: the writes return false and the reads the empty sequence, and
\* the store holds what it held or what it made of the command.
C9_FailureIsReturned ==
    [][ (h.pc = "wait" /\ h'.pc = "idle" /\ last'.failed) =>
           /\ last'.outcome = "return"
           /\ last'.ret = (IF h.op \in WriteOps THEN FALSE ELSE <<>>)
           /\ hashes' \in {hashes, HashesAfter(h)}
           /\ zsets' \in {zsets, ZsetsAfter(h)}
      ]_vars

\* C9 witness: the store call of a remove_order of a present record failed
C9_Witness == last.failed /\ last.op = "hdel" /\ last.present

\* C10: once the connectivity check at start-up has failed, no handler is
\* registered or run and no service call is made.
C10_NoServingWithoutStore ==
    (ping \in {"ConnectionError", "OtherError"}) =>
        /\ ~registered
        /\ mainPc # "polling"
        /\ h = Idle
        /\ nCalls = 0
        /\ last = NoReturn

\* C10 witness: the ping raised ConnectionError, the token is set, and main
\* has returned
C10_Witness == ping = "ConnectionError" /\ tokenSet /\ mainPc = "exited"

\* C11: a list_orders_for_day that the store answers returns, for every
\* order that a place_or_update_order wrote into that day's collection and
\* that no later write to the owner's field replaced, a record of that owner
\* whose food and placed_at are the values written.
C11_RoundTrip ==
    [][ (Returns("hgetall") /\ ~last'.failed) =>
           \A t \in live :
               (t[1] = h.key /\ InCollection(t)) =>
                   \E j \in 1..Len(last'.ret) :
                       /\ last'.ret[j].username = get_display_name(UserById(t[2]))
                       /\ last'.ret[j].food = Str(t[4])
                       /\ last'.ret[j].timestamp_iso.t = "str"
                       /\ fromisoformat(last'.ret[j].timestamp_iso.v)
                             = [ok |-> TRUE, v |-> t[5]]
      ]_vars

User2Key == get_messages_key_for_user(2)

\* C12: no step removes a member from a message archive, and after a
\* record_message that succeeded the text is a member of the user's archive.
C12_MessagesAreNeverDeleted ==
    [][ /\ \A k \in ZKeys : \A i \in 1..Len(zsets[k]) :
               \E j \in 1..Len(zsets'[k]) : zsets'[k][j][1] = zsets[k][i][1]
        /\ (Returns("zadd") /\ ~last'.failed) =>
               \E j \in 1..Len(zsets'[h.key]) : zsets'[h.key][j][1] = h.field
      ]_vars

\* C12 witness: user 2's message "hi" is still archived after a remove_order
\* that came later
C12_Witness ==
    /\ last.op = "hdel"
    /\ ~last.failed
    /\ zsets[User2Key] = << << <<"h", "i">>, 1 >> >>

\* C13: the score of an archive entry never moves backwards: whatever
\* record_message runs, the text's score afterwards is not below its score
\* before.
C13_ScoreNeverMovesBack ==
    [][ \A k \in ZKeys : \A i \in 1..Len(zsets[k]) : \A j \in 1..Len(zsets'[k]) :
            zsets'[k][j][1] = zsets[k][i][1] => zsets'[k][j][2] >= zsets[k][i][2]
      ]_vars

\* C14: for a limit <= 0, list_messages_desc returns no more entries than it
\* returns for limit 1 on the same archive.
C14_LimitIsAtLeastOne ==
    [][ (Returns("zrevrange") /\ ~last'.failed /\ h.value <= 0) =>
           Len(last'.ret)
              <= Len(MessagesFromResults(ZRevRange(zsets[h.key], 0, 1 - 1)))
      ]_vars

\* the timestamp that get_orders_for_day reads from a payload
PlacedAt(payload) ==
    fromisoformat(DictGet(json_loads(payload).v, "timestamp_iso", PyNone).v)

\* C15: every order that a /food command stored lies in the collection of
\* the calendar date of its placed_at timestamp.
C15_RecordsLieInTheirDay ==
    \A t \in live :
        /\ PlacedAt(t[3]).ok
        /\ t[1] = get_order_key_for_date(get_current_date_str(PlacedAt(t[3]).v))

\* the records of a collection that belong to other owners
OtherOwners(hash, owner) == SelectSeq(hash, LAMBDA e : e[1] # owner)

\* C16: a place_or_update_order or remove_order for owner X is sent to the
\* collection of the current day and changes at most the field X of that
\* collection: the other owners' records, the other days' collections and
\* the archives stay as they were; a record_message for user U changes only
\* U's archive; the two list operations and every other step change nothing
\* in the store.
C16_Frame ==
    [][ /\ (h.pc # "wait" /\ h'.pc = "wait" /\ h'.op \in {"hset", "hdel"}) =>
               h'.key = get_order_key_for_date(get_current_date_str(clock))
        /\ (h.pc = "wait" /\ h.op \in {"hset", "hdel"}) =>
               /\ zsets' = zsets
               /\ \A k \in HashKeys \ {h.key} : hashes'[k] = hashes[k]
               /\ OtherOwners(hashes'[h.key], h.field)
                     = OtherOwners(hashes[h.key], h.field)
        /\ (h.pc = "wait" /\ h.op = "zadd") =>
               /\ hashes' = hashes
               /\ h.key = get_messages_key_for_user(h.uid)
               /\ \A k \in ZKeys \ {h.key} : zsets'[k] = zsets[k]
        /\ (h.pc = "wait" /\ h.op \in {"hgetall", "zrevrange"}) =>
               (hashes' = hashes /\ zsets' = zsets)
        /\ (h.pc # "wait") => (hashes' = hashes /\ zsets' = zsets)
      ]_vars

\* C16 witness: "@anna" was removed from the first day's collection, and
\* Marco's record of that day is as it was
C16_Witness ==
    /\ last.op = "hdel"
    /\ last.ret = TRUE
    /\ hashes[Day0Key] = << <<"Marco", OrderPayload("pizza", 0)>> >>

\* the messages that C17 lets into the archive
Qualifies(user, text, chat_type) ==
    /\ user.id # 0
    /\ Len(text) > 0
    /\ Head(text) # "/"
    /\ chat_type = "group" \/ chat_type = "supergroup"

\* C17: the message handler leaves a message that has no sender, no text,
\* a text starting with "/" or a chat other than a group or supergroup
\* without any service call; for a qualifying message it sends a write to
\* the archive of the sender's user id with the send time as score; and an
\* archive changes only by such a write, which puts the text there with
\* that score.
C17_ArchivesOnlyGroupMessages ==
    [][ /\ \A u \in Posters, text \in Texts, ct \in ChatTypes, n \in MsgDates :
               message_store_handler(u, text, ct, MessageDate(n)) =>
                   IF Qualifies(u, text, ct)
                   THEN redis_conn = "conn" =>
                           /\ h'.pc = "wait"
                           /\ h'.op = "zadd"
                           /\ h'.key = get_messages_key_for_user(u.id)
                           /\ h'.field = text
                           /\ h'.value = n
                   ELSE h' = h /\ nCalls' = nCalls /\ zsets' = zsets
        /\ zsets' # zsets =>
               /\ h.pc = "wait"
               /\ h.op = "zadd"
               /\ \E j \in 1..Len(zsets'[h.key]) :
                      zsets'[h.key][j] = <<h.field, h.value>>
      ]_vars

\* C17 witness: user 2's group message "hi", sent at 3, is in user 2's
\* archive with score 3
C17_Witness ==
    /\ last.op = "zadd"
    /\ ~last.failed
    /\ zsets[User2Key] = << << <<"h", "i">>, 3 >> >>

====
